---- MODULE Spec2Model ----
(***************************************************************************)
(* Orchestration layer of the law-firm data pipeline:                      *)
(*   - the claim-and-drain processing loop of the website-scraper runner   *)
(*     (src/src/runner/websiteScraper.ts) and of the CRM-sync runner       *)
(*     (src/unnamed/part_001), over the PlaceEntry / Company store;        *)
(*   - the browser pool (src/src/services/browser.ts) and the activity     *)
(*     scopes that consume its handles.                                    *)
(* SpecLoop runs one runner (its stage is chosen in Init), SpecPool runs   *)
(* one pool with NumClients concurrent consumer scopes, SpecEngine and     *)
(* SpecSaga the workflow engine, SpecRunner the whole runner program       *)
(* (startup, loop and metricsReporter under Effect.all), SpecDeadline one  *)
(* workflow call under its timeout, SpecSession the contexts that share    *)
(* the session snapshot, SpecTwoLoops two runner processes on one store,   *)
(* SpecScrape the two stages in a row with the scrape activity's write,    *)
(* SpecDb a runner under its database layer (src/src/db/index.ts).         *)
(***************************************************************************)
EXTENDS Integers, Sequences, FiniteSets, Bags, TLC

VARIABLES
    stage,              \* which runner program this is: "web" or "sync"
    placeStatus,        \* PlaceEntry.status per record id ("absent" = no row)
    company,            \* Company row derived from the PlaceEntry of the same id
    pc,                 \* position of the mainProcessingLoop fiber
    cont,               \* the {continue} state returned by processOneRecord
    retries,            \* retries consumed by fetchNextRecord's schedule
    queries,            \* store queries issued by the current fetchNextRecord
    record,             \* the record processOneRecord holds (query snapshot)
    outcome,            \* how the current iteration's workflow call ended
    isCompleted,        \* the local isCompleted of processOneRecord
    recordsProcessed,   \* Metric.counter
    recordsFailed,      \* Metric.counter
    recordsSkipped,     \* Metric.counter (sync runner only)
    recordsTimedOut,    \* Metric.counter
    processingDuration, \* number of samples in the duration histogram
    workflowsStarted,   \* number of Workflow.execute calls issued
    report,             \* the final logMetrics snapshot
    atClaim,            \* history: counters and status when the record was claimed
    lastTimedOut,       \* history: id whose workflow timed out in the previous iteration
    log,                \* history: outcome of every iteration so far
    pool,               \* which pool the program provides: "agent" or "context"
    permits,            \* free permits of the pool's semaphore
    clients,            \* bag of consumer scopes, by local state
    browser,            \* the pool's long-lived browser and the pool's scope
    now,                \* the clock read by new Date(), in milliseconds
    execs,              \* the workflow executions the engine holds, oldest first
    callers,            \* the fibers that call Workflow.execute
    program,            \* position of the runner program (startup, Effect.all, exit)
    reporter,           \* the metricsReporter fiber
    absorbed,           \* history: the errors the program caught and absorbed
    flight,             \* the workflow call of the loop's current iteration
    authFile,           \* the session snapshot in ./playwright/auth.json
    contexts,           \* the browser contexts seeded from and saved to that file
    persisted,          \* history: what release hooks saved since the last acquisition
    peer,               \* a second runner process of the same stage
    prisma              \* the PrismaClient of the database layer and its connection

loopVars == <<stage, placeStatus, company, pc, cont, retries, queries, record, outcome,
              isCompleted, recordsProcessed, recordsFailed, recordsSkipped,
              recordsTimedOut, processingDuration, workflowsStarted, report,
              atClaim, lastTimedOut, log>>
poolVars == <<pool, permits, clients, browser>>
engineVars == <<now, execs, callers>>
runnerVars == <<program, reporter, absorbed>>
sessionVars == <<authFile, contexts, persisted>>
vars == <<loopVars, poolVars, engineVars, runnerVars, flight, sessionVars, peer, prisma>>

\* what the actions of each subsystem leave alone
notLoopVars == <<poolVars, engineVars, runnerVars, flight, sessionVars, peer, prisma>>
notPoolVars == <<loopVars, engineVars, runnerVars, flight, sessionVars, peer, prisma>>
notEngineVars == <<loopVars, poolVars, runnerVars, flight, sessionVars, peer, prisma>>
notFlightVars == <<loopVars, poolVars, engineVars, runnerVars, sessionVars, peer, prisma>>
notSessionVars == <<loopVars, poolVars, engineVars, runnerVars, flight, peer, prisma>>
\* ... and what the runner program leaves alone besides the loop
besideLoopAndRunner == <<poolVars, engineVars, flight, sessionVars, peer, prisma>>

----------------------------------------------------------------------------
(* Bounds *)

MaxRecords == 3
MaxCompanies == 1
MaxClaims == 3
NumClients == 11

\* ids of the PlaceEntry rows, and of those that can have a Company row
Ids == 1..MaxRecords
CompanyIds == {i \in Ids : i <= MaxCompanies}

\* the rows the runner's claim query ranges over
Backlog == IF stage = "web" THEN Ids ELSE CompanyIds

----------------------------------------------------------------------------
(* The store *)

\* A Company row: servicesOffered is kept as "none or some", emailAddress as
\* "null or not", crmSyncEvent as "none" or the status of the created event.
NoCompany == [exists |-> FALSE, services |-> 0, email |-> FALSE, crmSyncEvent |-> "none"]

NewCompany(services, email) ==
    [exists |-> TRUE, services |-> services, email |-> email, crmSyncEvent |-> "none"]

NoRecord == [id |-> 0, services |-> 0]

EligibleUnlessHeld(i) ==
    /\ IF stage = "web"
       THEN placeStatus[i] = "null"
       ELSE company[i].exists /\ company[i].crmSyncEvent = "none" /\ company[i].email
    /\ ~(pc \in {"claimed", "delete", "reset", "update"} /\ record.id = i)
    /\ ~(peer.pc = "claimed" /\ peer.id = i)

EligibleAnyStatus(i) ==
    IF stage = "web" THEN placeStatus[i] # "absent" ELSE company[i].exists

\* where-clause of the claim query of each runner
Eligible(i) ==
    IF stage = "web"
    THEN placeStatus[i] = "null"
    ELSE company[i].exists /\ company[i].crmSyncEvent = "none" /\ company[i].email

BacklogEmpty == \A i \in Backlog : ~Eligible(i)

\* the field the loop writes the terminal status to
TerminalStatus(i) ==
    IF stage = "web" THEN placeStatus[i] ELSE company[i].crmSyncEvent

----------------------------------------------------------------------------
(* fetchNextRecord *)

RetryRecurs == 5

CanRetryTotalTries(n) == n + 1 < RetryRecurs

\* Schedule.recurs(5): a failure is retried while fewer than 5 retries have
\* been consumed
CanRetry(n) == n < RetryRecurs

BaseSeconds == 30

RECURSIVE Pow2(_)
Pow2(n) == IF n = 0 THEN 1 ELSE 2 * Pow2(n - 1)

SpacedDelay(base, k) == base

\* Schedule.exponential(base): the delay before the k-th recurrence is
\* base * 2^(k-1); intersected with Schedule.recurs(n) it keeps these delays
\* (the longer of the two) and stops after n recurrences
ExponentialDelay(base, k) == base * Pow2(k - 1)

\* the waits, in seconds, that the current fetchNextRecord has made so far
waits == [k \in 1..retries |-> ExponentialDelay(BaseSeconds, k)]

\* processOneRecord: if (!record) return { continue: false }
ContinueFlag(rec) == rec # NoRecord

LoopWhileAlways(c) == TRUE

\* mainProcessingLoop: while: (state) => state.continue
LoopWhile(c) == c

\* logMetrics
logMetrics ==
    [processed |-> recordsProcessed,
     failed    |-> recordsFailed,
     skipped   |-> recordsSkipped,
     timedOut  |-> recordsTimedOut,
     success   |-> recordsProcessed - recordsFailed - recordsSkipped]

NoReport == [processed |-> -1, failed |-> -1, skipped |-> -1, timedOut |-> -1, success |-> -1]

NoClaim == [failed |-> 0, timedOut |-> 0, skipped |-> 0, started |-> 0,
            status |-> "none", place |-> "none"]

metricVars == <<recordsProcessed, recordsFailed, recordsSkipped, recordsTimedOut,
                processingDuration, workflowsStarted>>
storeVars == <<placeStatus, company>>
histVars == <<atClaim, lastTimedOut, log>>

ProcessedIncUnlessSkipped(rec) == IF stage = "sync" /\ rec.services = 0 THEN 0 ELSE 1

\* Metric.increment(recordsProcessed), ahead of the zero-services test
ProcessedInc(rec) == 1

\* the query returned row i: processOneRecord counts it and goes on
FetchFound(i) ==
    /\ pc = "fetch"
    /\ Eligible(i)
    /\ recordsProcessed < MaxClaims
    /\ record' = [id |-> i, services |-> company[i].services]
    /\ recordsProcessed' = recordsProcessed + ProcessedInc(record')
    /\ atClaim' = [failed |-> recordsFailed, timedOut |-> recordsTimedOut,
                   skipped |-> recordsSkipped, started |-> workflowsStarted,
                   status |-> TerminalStatus(i), place |-> placeStatus[i]]
    /\ queries' = queries + 1
    /\ pc' = "claimed"
    /\ UNCHANGED <<stage, storeVars, cont, retries, outcome, isCompleted, recordsFailed,
                   recordsSkipped, recordsTimedOut, processingDuration,
                   workflowsStarted, report, lastTimedOut, log, notLoopVars>>

\* the query returned no row: NoMoreRecords, retried by the schedule, and on
\* exhaustion caught (catchTag) and turned into null, the stop signal
FetchEmpty ==
    /\ pc = "fetch"
    /\ BacklogEmpty
    /\ IF CanRetry(retries)
       THEN /\ retries' = retries + 1
            /\ UNCHANGED <<pc, cont, record>>
       ELSE /\ record' = NoRecord
            /\ cont' = ContinueFlag(NoRecord)
            /\ pc' = "loop"
            /\ UNCHANGED retries
    /\ queries' = queries + 1
    /\ UNCHANGED <<stage, storeVars, outcome, isCompleted, metricVars, report,
                   histVars, notLoopVars>>

\* the query failed in the store: retried by the same schedule, and on
\* exhaustion the error leaves fetchNextRecord, processOneRecord and the loop
FetchError ==
    /\ pc = "fetch"
    /\ IF CanRetry(retries)
       THEN /\ retries' = retries + 1
            /\ UNCHANGED pc
       ELSE /\ pc' = "failed"
            /\ UNCHANGED retries
    /\ queries' = queries + 1
    /\ UNCHANGED <<stage, storeVars, cont, record, outcome, isCompleted, metricVars,
                   report, histVars, notLoopVars>>

----------------------------------------------------------------------------
(* processOneRecord, after the claim *)

Outcomes == {"ok", "fail", "timeout"}

IsCompletedNoTimeout(o) == IF o = "ok" THEN "true" ELSE "false"

\* Effect.map(() => true), catchTag("TimeoutException") => null, catchAll => false
IsCompletedOf(o) ==
    CASE o = "ok" -> "true"
      [] o = "timeout" -> "null"
      [] OTHER -> "false"

FailedIncBothHandlers(o) == IF o = "ok" THEN 0 ELSE IF o = "timeout" THEN 2 ELSE 1

FailedIncErrorsOnly(o) == IF o = "fail" THEN 1 ELSE 0

\* increments of recordsFailed by the two handlers around Workflow.execute
FailedInc(o) == IF o = "ok" THEN 0 ELSE 1

\* increment of recordsTimedOut by the TimeoutException handler
TimedOutInc(o) == IF o = "timeout" THEN 1 ELSE 0

ShouldUpdateOnlyTrue(c) == c = "true"

\* if (isCompleted !== null)
ShouldUpdate(c) == c # "null"

DurationSamplesBodyOnly(path) == IF path = "body" THEN 1 ELSE 0

\* processingDuration(Effect.succeed(duration)): the samples recorded at the
\* end of the iteration's body, or by the outer catchAll when the body failed
DurationSamples(path) == 1

\* if (record.servicesOffered.length === 0), sync runner only
IsDisqualified(rec) == stage = "sync" /\ rec.services = 0

Skip ==
    /\ pc = "claimed"
    /\ IsDisqualified(record)
    /\ recordsSkipped' = recordsSkipped + 1
    /\ outcome' = "skip"
    /\ log' = Append(log, "skip")
    /\ pc' = "delete"
    /\ UNCHANGED <<stage, storeVars, cont, retries, record, isCompleted, recordsProcessed,
                   recordsFailed, recordsTimedOut, processingDuration, workflowsStarted,
                   report, atClaim, lastTimedOut, queries, notLoopVars>>

\* db.company.delete; a failure goes to the outer catchAll
DeleteCompany(ok) ==
    /\ pc = "delete"
    /\ IF ok
       THEN /\ company' = [company EXCEPT ![record.id] = NoCompany]
            /\ pc' = "reset"
            /\ UNCHANGED <<recordsFailed, processingDuration>>
       ELSE /\ recordsFailed' = recordsFailed + 1
            /\ processingDuration' = processingDuration + DurationSamples("catchAll")
            /\ pc' = "sleep"
            /\ UNCHANGED company
    /\ UNCHANGED <<stage, placeStatus, cont, retries, record, outcome, isCompleted,
                   recordsProcessed, recordsSkipped, recordsTimedOut, workflowsStarted,
                   report, histVars, queries, notLoopVars>>

ResetStatusFalse == "false"

\* data: { status: null } of the disqualification branch
ResetStatus == "null"

\* db.placeEntry.update of the disqualification branch; a failure goes to the
\* outer catchAll
ResetPlace(ok) ==
    /\ pc = "reset"
    /\ IF ok
       THEN /\ placeStatus' = [placeStatus EXCEPT ![record.id] = ResetStatus]
            /\ UNCHANGED recordsFailed
       ELSE /\ recordsFailed' = recordsFailed + 1
            /\ UNCHANGED placeStatus
    /\ processingDuration' =
          processingDuration + DurationSamples(IF ok THEN "body" ELSE "catchAll")
    /\ pc' = "sleep"
    /\ UNCHANGED <<stage, company, cont, retries, record, outcome, isCompleted,
                   recordsProcessed, recordsSkipped, recordsTimedOut, workflowsStarted,
                   report, histVars, queries, notLoopVars>>

\* Workflow.execute(...) under Effect.timeout, with its three handlers
ExecuteWorkflow(o) ==
    /\ pc = "claimed"
    /\ ~IsDisqualified(record)
    /\ workflowsStarted' = workflowsStarted + 1
    /\ outcome' = o
    /\ log' = Append(log, o)
    /\ isCompleted' = IsCompletedOf(o)
    /\ recordsFailed' = recordsFailed + FailedInc(o)
    /\ recordsTimedOut' = recordsTimedOut + TimedOutInc(o)
    /\ IF ShouldUpdate(isCompleted')
       THEN /\ pc' = "update"
            /\ UNCHANGED processingDuration
       ELSE /\ pc' = "sleep"
            /\ processingDuration' = processingDuration + DurationSamples("body")
    /\ UNCHANGED <<stage, storeVars, cont, retries, record, recordsProcessed,
                   recordsSkipped, report, atClaim, lastTimedOut, queries, notLoopVars>>

\* the write of the terminal status
WriteStatus(i, c) ==
    IF stage = "web"
    THEN /\ placeStatus' = [placeStatus EXCEPT ![i] = c]
         /\ UNCHANGED company
    ELSE /\ company' = [company EXCEPT ![i].crmSyncEvent = c]
         /\ UNCHANGED placeStatus

\* db.placeEntry.update / db.company.update; a failure goes to the outer catchAll
UpdateStatus(ok) ==
    /\ pc = "update"
    /\ IF ok
       THEN /\ WriteStatus(record.id, isCompleted)
            /\ UNCHANGED recordsFailed
       ELSE /\ recordsFailed' = recordsFailed + 1
            /\ UNCHANGED storeVars
    /\ processingDuration' =
          processingDuration + DurationSamples(IF ok THEN "body" ELSE "catchAll")
    /\ pc' = "sleep"
    /\ UNCHANGED <<stage, cont, retries, record, outcome, isCompleted, recordsProcessed,
                   recordsSkipped, recordsTimedOut, workflowsStarted, report, histVars,
                   queries, notLoopVars>>

\* Effect.sleep(3 s); return { continue: true }
Sleep ==
    /\ pc = "sleep"
    /\ cont' = ContinueFlag(record)
    /\ lastTimedOut' = IF outcome = "timeout" THEN record.id ELSE 0
    /\ outcome' = "none"
    /\ pc' = "loop"
    /\ UNCHANGED <<stage, storeVars, retries, record, isCompleted, metricVars, report,
                   atClaim, log, queries, notLoopVars>>

\* mainProcessingLoop: Effect.loop's while, then the final log and logMetrics
LoopStep ==
    /\ pc = "loop"
    /\ IF LoopWhile(cont)
       THEN /\ pc' = "fetch"
            /\ retries' = 0
            /\ queries' = 0
            /\ UNCHANGED report
       ELSE /\ pc' = "done"
            /\ report' = logMetrics
            /\ UNCHANGED <<retries, queries>>
    /\ UNCHANGED <<stage, storeVars, cont, record, outcome, isCompleted, metricVars,
                   histVars, notLoopVars>>

\* the places-locator stage adds a PlaceEntry (status null) to the backlog of
\* the website runner
UpstreamPlace(i) ==
    /\ stage = "web"
    /\ placeStatus[i] = "absent"
    /\ placeStatus' = [placeStatus EXCEPT ![i] = "null"]
    /\ UNCHANGED <<stage, company, pc, cont, retries, record, outcome, isCompleted,
                   metricVars, report, histVars, queries, notLoopVars>>

\* the website stage scrapes a null PlaceEntry, creates its Company (with at
\* least one service) and marks the PlaceEntry true: a record for the sync runner
UpstreamCompany(i) ==
    /\ stage = "sync"
    /\ i \in CompanyIds
    /\ ~company[i].exists
    /\ placeStatus[i] = "null"
    /\ \E email \in BOOLEAN :
          company' = [company EXCEPT ![i] = NewCompany(1, email)]
    /\ placeStatus' = [placeStatus EXCEPT ![i] = "true"]
    /\ UNCHANGED <<stage, pc, cont, retries, record, outcome, isCompleted, metricVars,
                   report, histVars, queries, notLoopVars>>

LoopNext ==
    \/ \E i \in Ids : FetchFound(i)
    \/ FetchEmpty
    \/ FetchError
    \/ Skip
    \/ \E ok \in BOOLEAN : DeleteCompany(ok)
    \/ \E ok \in BOOLEAN : ResetPlace(ok)
    \/ \E o \in Outcomes : ExecuteWorkflow(o)
    \/ \E ok \in BOOLEAN : UpdateStatus(ok)
    \/ Sleep
    \/ LoopStep

LoopStart(p) ==
    /\ stage \in {"web", "sync"}
    /\ IF stage = "web"
       THEN /\ placeStatus \in [Ids -> {"absent", "null"}]
            /\ company = [i \in Ids |-> NoCompany]
       ELSE /\ company \in [Ids -> {NoCompany, NewCompany(1, TRUE), NewCompany(0, TRUE),
                                    NewCompany(1, FALSE)}]
            /\ \A i \in Ids \ CompanyIds : company[i] = NoCompany
            /\ placeStatus = [i \in Ids |-> IF company[i].exists THEN "true" ELSE "null"]
    /\ pc = p
    /\ cont = TRUE
    /\ retries = 0
    /\ queries = 0
    /\ record = NoRecord
    /\ outcome = "none"
    /\ isCompleted = "null"
    /\ recordsProcessed = 0
    /\ recordsFailed = 0
    /\ recordsSkipped = 0
    /\ recordsTimedOut = 0
    /\ processingDuration = 0
    /\ workflowsStarted = 0
    /\ report = NoReport
    /\ atClaim = NoClaim
    /\ lastTimedOut = 0
    /\ log = << >>

LoopInit == LoopStart("fetch")

----------------------------------------------------------------------------
(* The browser pool *)

PermitLimit == 10

AcquireRecurs == 2

\* a consumer scope (one activity execution) and the handle it holds:
\* stops counts the teardown calls (agent.stop / context.close) on its handle,
\* tries the creations of the sub-resource that have failed for it
Client(p, n) == [pc |-> p, stops |-> n, tries |-> 0, hook |-> "none"]

Tried(p, t) == [pc |-> p, stops |-> 0, tries |-> t, hook |-> "none"]

\* a scope whose release has run: h is how the onBeforeClose hook ended
Released(p, n, h) == [pc |-> p, stops |-> n, tries |-> 0, hook |-> h]

\* Effect.promise(() => browser.newContext(...) / startBrowserAgent(...)):
\* how a rejection of the promise ends the acquire
CreationFailure == "defect"

\* .pipe(Effect.retry(Schedule.recurs(2))): is the acquisition run again
\* after its t-th failure; only a failure in the error channel is retried
RetryAcquire(t, failure) == failure = "error" /\ t <= AcquireRecurs

Move(from, to) ==
    /\ BagIn(from, clients)
    /\ clients' = (clients (-) SetToBag({from})) (+) SetToBag({to})

\* handles are requested, created and used while the pool's scope is open;
\* the scopes of the consumers can still be closed when it has ended
PoolOpen == browser.scope = "open"

\* the number of consumers at position p
CopiesOf(p) ==
    LET at == {c \in BagToSet(clients) : c.pc = p}
        RECURSIVE Sum(_)
        Sum(S) == IF S = {} THEN 0
                  ELSE LET c == CHOOSE x \in S : TRUE
                       IN CopiesIn(c, clients) + Sum(S \ {c})
    IN Sum(at)

\* handles created and not yet torn down
liveHandles == CopiesIn(Client("using", 0), clients)

\* the activity calls getBrowserAgent() / getContext(): withPermits(1) begins
Request ==
    /\ PoolOpen
    /\ Move(Client("idle", 0), Client("waiting", 0))
    /\ UNCHANGED <<pool, browser, permits, notPoolVars>>

\* semaphore.withPermits(1): take one permit, suspended while none is free
TakePermit ==
    /\ PoolOpen
    /\ permits > 0
    /\ permits' = permits - 1
    /\ \E c \in BagToSet(clients) :
          /\ c.pc = "waiting"
          /\ Move(c, Tried("creating", c.tries))
    /\ UNCHANGED <<pool, browser, notPoolVars>>

\* Effect.acquireRelease: the acquire succeeded, the finalizer is added to the
\* consumer's scope and the effect wrapped by withPermits is over: the permit
\* goes back while the handle stays with the consumer
CreateOk ==
    /\ PoolOpen
    /\ permits' = permits + 1
    /\ \E c \in BagToSet(clients) :
          /\ c.pc = "creating"
          /\ Move(c, Client("using", 0))
    /\ UNCHANGED <<pool, browser, notPoolVars>>

\* the acquire rejected: withPermits gives the permit back; Effect.retry
\* runs the acquisition again if it retries this failure, otherwise the
\* consumer is left without a handle: it dies on a defect, and fails with an
\* error value it can catch and map on a typed error
CreateFail ==
    /\ PoolOpen
    /\ permits' = permits + 1
    /\ \E c \in BagToSet(clients) :
          /\ c.pc = "creating"
          /\ LET t == c.tries + 1
             IN IF RetryAcquire(t, CreationFailure)
                THEN Move(c, Tried("waiting", t))
                ELSE Move(c, Tried(IF CreationFailure = "defect" THEN "died" ELSE "failed", t))
    /\ UNCHANGED <<pool, browser, notPoolVars>>

\* scrapeWebsite: "Stop browser agent", agent.stop() called by the activity body
ExplicitStop ==
    /\ PoolOpen
    /\ pool = "agent"
    /\ Move(Client("using", 0), Client("stopped", 1))
    /\ UNCHANGED <<pool, browser, permits, notPoolVars>>

\* where the body of the consumer can be left in each way
ExitFrom(how) ==
    CASE how = "normal" -> IF pool = "agent" THEN {"stopped"} ELSE {"using"}
      [] OTHER -> {"using", "stopped"}

\* how the onBeforeClose hook given to getContext can end: it saves the
\* storage state under Effect.tryPromise and Effect.ignore ("error": the save
\* failed and the error was ignored), and its type lets it die ("defect");
\* getBrowserAgent takes no hook
HookOutcomes == IF pool = "context" THEN {"ok", "error", "defect"} ELSE {"none"}

\* is a failure of the hook logged: the caller's Effect.ignore and the
\* release's Effect.orDie log nothing
HookFailureLogged(h) == FALSE

\* the release of getContext is a single Effect.gen: the statement after the
\* hook, c.close(), runs unless the hook died
CloseRunsAfter(h) == h # "defect"

\* the consumer's scope closes (Effect.scoped) normally, by failure or by
\* interruption: the finalizer of acquireRelease runs the hook, if any, and
\* then c.stop() / c.close()
ScopeExit(how) ==
    /\ \E c \in BagToSet(clients), h \in HookOutcomes :
          /\ c.pc \in ExitFrom(how)
          /\ IF CloseRunsAfter(h)
             THEN Move(c, Released("closed", c.stops + 1, h))
             ELSE Move(c, Released("unclosed", c.stops, h))
    /\ UNCHANGED <<pool, browser, permits, notPoolVars>>

\* the release registered for the long-lived browser: BrowserService launches
\* it under Effect.acquireRelease with b.close() as release,
\* BrowserAgentService launches it with a plain Effect.promise
BrowserCloses(p) == IF p = "context" THEN 1 ELSE 0

\* the scope of the pool's layer ends, normally or by failure: the finalizers
\* registered in it run
PoolScopeEnd(how) ==
    /\ browser.scope = "open"
    /\ browser' = [browser EXCEPT !.scope = how,
                                  !.closes = @ + BrowserCloses(pool)]
    /\ UNCHANGED <<pool, permits, clients, notPoolVars>>

PoolNext ==
    \/ Request
    \/ TakePermit
    \/ CreateOk
    \/ CreateFail
    \/ ExplicitStop
    \/ \E how \in {"normal", "failure", "interrupt"} : ScopeExit(how)
    \/ \E how \in {"ended", "failed"} : PoolScopeEnd(how)

PoolInit ==
    /\ pool \in {"agent", "context"}
    /\ browser = [launches |-> 1, closes |-> 0, scope |-> "open"]
    /\ permits = PermitLimit
    /\ clients = [c \in {Client("idle", 0)} |-> NumClients]

PoolOff ==
    /\ pool = "agent"
    /\ browser = [launches |-> 1, closes |-> 0, scope |-> "open"]
    /\ permits = PermitLimit
    /\ clients = EmptyBag

LoopOff ==
    /\ stage = "web"
    /\ placeStatus = [i \in Ids |-> "absent"]
    /\ company = [i \in Ids |-> NoCompany]
    /\ pc = "off"
    /\ cont = TRUE
    /\ retries = 0
    /\ queries = 0
    /\ record = NoRecord
    /\ outcome = "none"
    /\ isCompleted = "null"
    /\ recordsProcessed = 0
    /\ recordsFailed = 0
    /\ recordsSkipped = 0
    /\ recordsTimedOut = 0
    /\ processingDuration = 0
    /\ workflowsStarted = 0
    /\ report = NoReport
    /\ atClaim = NoClaim
    /\ lastTimedOut = 0
    /\ log = << >>

----------------------------------------------------------------------------
(* The workflow engine *)

MaxTime == 1
MaxActivities == 3

Workflows == {"PlacesLocatorWorkflow", "PlaceWebsiteScraperWorkflow",
              "SyncCrmplaceDetailWorkflow"}

\* the fibers that submit executions, all for the same logical record
Callers == {"c1", "c2"}
RecordId == "r1"

IdempotencyKeyIdOnly(w, id, t) == <<id, -1>>

\* idempotencyKey: ({ id }) => id for the places locator, and
\* `${id}-${new Date().toISOString()}` for the two other workflows: the key
\* is the pair of the id and the millisecond read from the clock (-1: none)
IdempotencyKey(w, id, t) ==
    IF w = "PlacesLocatorWorkflow" THEN <<id, -1>> ELSE <<id, t>>

\* Activity.retry({ times }) of the single activity of each workflow
RetryTimes(w) ==
    IF w = "SyncCrmplaceDetailWorkflow" THEN 3 ELSE 1

\* the number of times the activity body can be executed at most
AttemptBudget(w) == RetryTimes(w) + 1

\* Effect.retry under Activity.retry: after the n-th execution ended with o,
\* a typed error is retried while the schedule recurs; a defect never is
RetriesAfter(w, n, o) == o = "error" /\ n <= RetryTimes(w)

NeverCoalesces(e, w, k) == FALSE

\* the execution a request for workflow w with key k is coalesced with
Coalesces(e, w, k) == e.wf = w /\ e.key = k

NewExecution(w, k, n) ==
    [wf |-> w, key |-> k, status |-> "Pending", nAct |-> n, act |-> 1,
     attempt |-> 0, result |-> "none", cause |-> "none",
     completed |-> << >>, compensated |-> << >>, compFailed |-> {}]

NoCall == [pc |-> "idle", wf |-> "none", at |-> -1, key |-> << >>, exec |-> 0,
           outcome |-> "none"]

ExecIds == 1..Cardinality(Callers)

\* the number of activities of a submitted workflow: each workflow of the
\* repository has one; a saga of several activities is run by a single caller
ActivityCounts == IF DOMAIN callers = Callers THEN {1} ELSE 1..MaxActivities

StatusOf(i) == IF i <= Len(execs) THEN execs[i].status ELSE "none"

TerminalStatuses == {"Succeeded", "Compensated"}

\* new Date() moves on
Tick ==
    /\ now < MaxTime
    /\ now' = now + 1
    /\ UNCHANGED <<execs, callers, notEngineVars>>

\* Workflow.execute(payload): the key is computed from the payload and the
\* clock; a request whose key the engine already holds joins that execution,
\* any other creates a Pending execution of n activities
Execute(c, w, n) ==
    /\ c \in DOMAIN callers
    /\ n \in ActivityCounts
    /\ callers[c].pc = "idle"
    /\ LET k == IdempotencyKey(w, RecordId, now)
           held == {i \in 1..Len(execs) : Coalesces(execs[i], w, k)}
       IN IF held # {}
          THEN /\ callers' = [callers EXCEPT ![c] =
                      [pc |-> "waiting", wf |-> w, at |-> now, key |-> k,
                       exec |-> CHOOSE i \in held : \A j \in held : i <= j,
                       outcome |-> "none"]]
               /\ n = 1
               /\ UNCHANGED execs
          ELSE /\ execs' = Append(execs, NewExecution(w, k, n))
               /\ callers' = [callers EXCEPT ![c] =
                      [pc |-> "waiting", wf |-> w, at |-> now, key |-> k,
                       exec |-> Len(execs) + 1, outcome |-> "none"]]
    /\ UNCHANGED <<now, notEngineVars>>

\* Pending -> Running: the engine accepts the execution
Accept(i) ==
    /\ StatusOf(i) = "Pending"
    /\ execs' = [execs EXCEPT ![i].status = "Running"]
    /\ UNCHANGED <<now, callers, notEngineVars>>

\* one execution of the body of the current activity, ending with o; a
\* success registers the compensation (withCompensation) and moves on to the
\* next activity
ActivityRun(i, o) ==
    /\ StatusOf(i) = "Running"
    /\ execs[i].result = "none"
    /\ execs[i].act <= execs[i].nAct
    /\ LET e == execs[i]
           n == e.attempt + 1
       IN execs' = [execs EXCEPT ![i] =
             CASE o = "ok" ->
                    [e EXCEPT !.completed = Append(@, e.act), !.act = @ + 1,
                              !.attempt = 0]
               [] RetriesAfter(e.wf, n, o) -> [e EXCEPT !.attempt = n]
               [] OTHER ->
                    [e EXCEPT !.attempt = n,
                              !.result = IF o = "error" THEN "exhausted" ELSE "defect"]]
    /\ UNCHANGED <<now, callers, notEngineVars>>

\* Running -> Succeeded: all activities returned successfully
Succeed(i) ==
    /\ StatusOf(i) = "Running"
    /\ execs[i].act > execs[i].nAct
    /\ execs' = [execs EXCEPT ![i].status = "Succeeded"]
    /\ UNCHANGED <<now, callers, notEngineVars>>

\* Running -> Failed: the current activity failed terminally
FailActivity(i) ==
    /\ StatusOf(i) = "Running"
    /\ execs[i].result # "none"
    /\ execs' = [execs EXCEPT ![i].status = "Failed", ![i].cause = execs[i].result]
    /\ UNCHANGED <<now, callers, notEngineVars>>

\* Running -> Failed: the workflow-level timeout elapsed
TimeoutWorkflow(i) ==
    /\ StatusOf(i) = "Running"
    /\ execs' = [execs EXCEPT ![i].status = "Failed", ![i].cause = "timeout"]
    /\ UNCHANGED <<now, callers, notEngineVars>>

\* Failed -> Compensating
StartCompensation(i) ==
    /\ StatusOf(i) = "Failed"
    /\ execs' = [execs EXCEPT ![i].status = "Compensating"]
    /\ UNCHANGED <<now, callers, notEngineVars>>

NextOldestFirst(e) == e.completed[Len(e.compensated) + 1]

\* the activity whose compensation runs next: the last completed one that
\* has not been compensated
NextToCompensate(e) == e.completed[Len(e.completed) - Len(e.compensated)]

\* one compensation runs; its failure is logged and the engine goes on
Compensate(i, ok) ==
    /\ StatusOf(i) = "Compensating"
    /\ Len(execs[i].compensated) < Len(execs[i].completed)
    /\ LET e == execs[i]
           a == NextToCompensate(e)
       IN execs' = [execs EXCEPT ![i] =
             [e EXCEPT !.compensated = Append(@, a),
                       !.compFailed = IF ok THEN @ ELSE @ \cup {a}]]
    /\ UNCHANGED <<now, callers, notEngineVars>>

\* Compensating -> Compensated: no compensation is left to run
FinishCompensation(i) ==
    /\ StatusOf(i) = "Compensating"
    /\ Len(execs[i].compensated) = Len(execs[i].completed)
    /\ execs' = [execs EXCEPT ![i].status = "Compensated"]
    /\ UNCHANGED <<now, callers, notEngineVars>>

\* the caller of Workflow.execute receives the outcome of its execution
Observe(c) ==
    /\ c \in DOMAIN callers
    /\ callers[c].pc = "waiting"
    /\ StatusOf(callers[c].exec) \in TerminalStatuses
    /\ callers' = [callers EXCEPT ![c].pc = "done",
                                  ![c].outcome = StatusOf(callers[c].exec)]
    /\ UNCHANGED <<now, execs, notEngineVars>>

EngineStep ==
    \/ \E i \in ExecIds : Accept(i)
    \/ \E i \in ExecIds, o \in {"ok", "error", "defect"} : ActivityRun(i, o)
    \/ \E i \in ExecIds : Succeed(i)
    \/ \E i \in ExecIds : FailActivity(i)
    \/ \E i \in ExecIds : StartCompensation(i)
    \/ \E i \in ExecIds, ok \in BOOLEAN : Compensate(i, ok)
    \/ \E i \in ExecIds : FinishCompensation(i)
    \/ \E c \in Callers : Observe(c)

EngineNext ==
    \/ Tick
    \/ \E c \in Callers, w \in Workflows, n \in 1..MaxActivities : Execute(c, w, n)
    \/ \E i \in ExecIds : TimeoutWorkflow(i)
    \/ EngineStep

EngineInit ==
    /\ now = 0
    /\ execs = << >>
    /\ callers = [c \in Callers |-> NoCall]

SagaInit ==
    /\ now = 0
    /\ execs = << >>
    /\ callers = [c \in {"c1"} |-> NoCall]

EngineOff ==
    /\ now = 0
    /\ execs = << >>
    /\ callers = [c \in {} |-> NoCall]

----------------------------------------------------------------------------
(* The runner program: startup, then the processing loop and the            *)
(* metricsReporter side by side under Effect.all                             *)

MaxCycles == 2

\* every loop variable but the fiber's position
loopData == <<stage, storeVars, cont, retries, queries, record, outcome, isCompleted,
              metricVars, report, histVars>>

NoReporter == [pc |-> "off", cycles |-> 0, errors |-> 0]

Absorbed(site, logged) == [site |-> site, logged |-> logged]

\* readdir or fs.rm may throw inside cleanupStaleLocks
CleanupOutcomes == {"ok", "readdirFails", "rmFails"}

\* both are caught by an empty catch { } block; Effect.catchAll(() => Effect.void)
\* stands behind them: nothing is written to the log
CleanupLogs(o) == FALSE

cleanupStaleLocks(o) ==
    IF o = "ok" THEN absorbed
    ELSE absorbed \cup {Absorbed("cleanupStaleLocks", CleanupLogs(o))}

\* the website runner runs startup before Effect.all; the sync runner has none
HasStartup(s) == s = "web"

startup(o) ==
    /\ program = "startup"
    /\ pc = "startup"
    /\ absorbed' = cleanupStaleLocks(o)
    /\ program' = "running"
    /\ pc' = "fetch"
    /\ reporter' = [reporter EXCEPT !.pc = "cycle"]
    /\ UNCHANGED <<loopData, besideLoopAndRunner>>

\* one run of logMetrics inside the reporter
CycleOutcomes == {"ok", "error", "defect"}

\* Effect.repeat(Schedule.spaced(30 s)) runs the effect again after a success
\* and fails with the first failure; the catchAll is piped after the repeat
RepeatsAfter(o) == o = "ok"

CountCycle(n) == IF n < MaxCycles THEN n + 1 ELSE n

\* logMetrics.pipe(Effect.repeat(...), Effect.catchAll(logError))
ReportCycle(o) ==
    /\ program = "running"
    /\ reporter.pc = "cycle"
    /\ reporter' =
         IF RepeatsAfter(o)
         THEN [reporter EXCEPT !.pc = "wait", !.cycles = CountCycle(reporter.cycles)]
         ELSE IF o = "error"
              THEN [reporter EXCEPT !.pc = "ended", !.errors = 1]
              ELSE [reporter EXCEPT !.pc = "died"]
    /\ absorbed' = IF o = "error"
                   THEN absorbed \cup {Absorbed("metricsReporter", TRUE)}
                   ELSE absorbed
    /\ UNCHANGED <<program, loopVars, besideLoopAndRunner>>

\* the 30 s spacing of the schedule is over
ReporterWake ==
    /\ program = "running"
    /\ reporter.pc = "wait"
    /\ reporter' = [reporter EXCEPT !.pc = "cycle"]
    /\ UNCHANGED <<program, absorbed, loopVars, besideLoopAndRunner>>

\* Effect.all([mainProcessingLoop, metricsReporter], {concurrency: "unbounded"})
\* succeeds when both fibers have succeeded
AllSucceeded == pc = "done" /\ reporter.pc = "ended"

ProgramExit ==
    /\ program = "running"
    /\ AllSucceeded
    /\ program' = "exited"
    /\ UNCHANGED <<reporter, absorbed, loopVars, besideLoopAndRunner>>

\* ... and fails as soon as one of them fails, interrupting the other
ProgramFail ==
    /\ program = "running"
    /\ pc = "failed" \/ reporter.pc = "died"
    /\ program' = "failed"
    /\ pc' = IF pc \in {"done", "failed"} THEN pc ELSE "interrupted"
    /\ reporter' = IF reporter.pc \in {"ended", "died"} THEN reporter
                   ELSE [reporter EXCEPT !.pc = "interrupted"]
    /\ UNCHANGED <<absorbed, loopData, besideLoopAndRunner>>

RunnerNext ==
    \/ \E o \in CleanupOutcomes : startup(o)
    \/ \E o \in CycleOutcomes : ReportCycle(o)
    \/ ReporterWake
    \/ ProgramExit
    \/ ProgramFail

\* the backlog the runner starts on holds the first record at most
RunnerInit ==
    /\ LoopStart(IF HasStartup(stage) THEN "startup" ELSE "fetch")
    /\ stage = "web" => \A i \in Ids \ {1} : placeStatus[i] = "absent"
    /\ program = IF HasStartup(stage) THEN "startup" ELSE "running"
    /\ reporter = [NoReporter EXCEPT !.pc = IF HasStartup(stage) THEN "off" ELSE "cycle"]
    /\ absorbed = {}

RunnerOff ==
    /\ program = "off"
    /\ reporter = NoReporter
    /\ absorbed = {}

----------------------------------------------------------------------------
(* The workflow call of one iteration under its deadline: the website        *)
(* runner's PlaceWebsiteScraperWorkflow.execute(...).pipe(Effect.timeout(5   *)
(* min)) and the scope of the ScrapeWebsite activity that the call runs.     *)
(* One activity scope per call; the engine's retries are in SpecEngine.      *)

NoFlight == [no |-> 0, state |-> "none"]

\* the activity scopes that have asked for a handle so far
ScopesOpened == BagCardinality(clients) - CopiesOf("idle")

CallRunning == flight.no = workflowsStarted + 1 /\ flight.state = "running"

CallExpired == flight.no = workflowsStarted + 1 /\ flight.state = "expired"

\* the fiber of the activity has no step left to take
ActivityOver ==
    CopiesOf("waiting") + CopiesOf("creating") + CopiesOf("using") + CopiesOf("stopped") = 0

\* PlaceWebsiteScraperWorkflow.execute({...}) is called for the claimed record
StartWorkflow ==
    /\ pc = "claimed"
    /\ ~IsDisqualified(record)
    /\ flight.no = workflowsStarted
    /\ flight' = [no |-> workflowsStarted + 1, state |-> "running"]
    /\ UNCHANGED notFlightVars

\* the steps of the activity's body while the call is pending
BodyRequest ==
    /\ CallRunning
    /\ ScopesOpened = workflowsStarted
    /\ Request

BodyTakePermit ==
    /\ CallRunning
    /\ TakePermit

\* the acquire of Effect.acquireRelease is uninterruptible: a creation under
\* way when the deadline passes still runs to its end
BodyCreateOk ==
    /\ CallRunning \/ CallExpired
    /\ CreateOk

BodyCreateFail ==
    /\ CallRunning \/ CallExpired
    /\ CreateFail

BodyStop ==
    /\ CallRunning
    /\ ExplicitStop

BodyExit(how) ==
    /\ CallRunning
    /\ ScopeExit(how)

\* Effect.timeout(Duration.minutes(5)) elapses while the call is pending
Expire ==
    /\ CallRunning
    /\ flight' = [flight EXCEPT !.state = "expired"]
    /\ UNCHANGED notFlightVars

\* the interruption of the call reaches the in-flight activity: a fiber
\* waiting for a permit ends there ...
CancelWaiting ==
    /\ CallExpired
    /\ \E c \in BagToSet(clients) :
          /\ c.pc = "waiting"
          /\ Move(c, Tried("interrupted", c.tries))
    /\ UNCHANGED <<pool, browser, permits, notPoolVars>>

\* ... and one that holds a handle has its scope closed by the interruption
CancelScope ==
    /\ CallExpired
    /\ ScopeExit("interrupt")

TimeoutReturnsAtOnce == TRUE

\* Effect.timeout interrupts the effect it wraps and yields its
\* TimeoutException when the interruption is complete
TimeoutReturns == ActivityOver

\* the call returns to processOneRecord: with the workflow's result once the
\* activity is over (the result depends on the extraction and on the store as
\* well as on the handle), with a TimeoutException after the deadline
CallReturns(o) ==
    IF o = "timeout"
    THEN CallExpired /\ TimeoutReturns
    ELSE CallRunning /\ ScopesOpened = workflowsStarted + 1 /\ ActivityOver

Outcome(o) ==
    /\ CallReturns(o)
    /\ ExecuteWorkflow(o)

DeadlineNext ==
    \/ StartWorkflow
    \/ BodyRequest
    \/ BodyTakePermit
    \/ BodyCreateOk
    \/ BodyCreateFail
    \/ BodyStop
    \/ \E how \in {"normal", "failure"} : BodyExit(how)
    \/ Expire
    \/ CancelWaiting
    \/ CancelScope
    \/ \E o \in Outcomes : Outcome(o)

\* the website runner with its agent pool, one activity scope per claim and a
\* backlog that holds the first record at most
DeadlineInit ==
    /\ stage = "web"
    /\ \A i \in Ids \ {1} : placeStatus[i] = "absent"
    /\ pool = "agent"
    /\ browser = [launches |-> 1, closes |-> 0, scope |-> "open"]
    /\ permits = PermitLimit
    /\ clients = [c \in {Client("idle", 0)} |-> MaxClaims]
    /\ flight = NoFlight

DeadlineOff == flight = NoFlight

----------------------------------------------------------------------------
(* The session snapshot: every context of syncCrm and of the places         *)
(* locator is seeded from ./playwright/auth.json and saves its storage      *)
(* state to the same path                                                   *)

NumHandles == 3

Handles == 1..NumHandles

Sessions == {"anon", "auth"}

NoContext == [pc |-> "none", session |-> "none"]

\* browser.newContext({ storageState: "./playwright/auth.json" }): the new
\* context starts with the content the file has now; Playwright rejects when
\* the file cannot be read
SeededFrom(file) ==
    IF file = "missing" THEN [pc |-> "died", session |-> "none"]
    ELSE [pc |-> "open", session |-> file]

\* context.storageState({ path }): the file becomes the context's state
SavedTo(file, session) == session

NewContext(h) ==
    /\ contexts[h].pc = "none"
    /\ contexts' = [contexts EXCEPT ![h] = SeededFrom(authFile)]
    /\ persisted' = {}
    /\ UNCHANGED <<authFile, notSessionVars>>

\* checkIfAuthNeeded(page): the page logs in when the session is not
\* authenticated
Authenticate(h) ==
    /\ contexts[h].pc = "open"
    /\ contexts[h].session = "anon"
    /\ contexts' = [contexts EXCEPT ![h].session = "auth"]
    /\ UNCHANGED <<authFile, persisted, notSessionVars>>

\* syncCrm saves the storage state once more in the activity's body
SaveInBody(h) ==
    /\ contexts[h].pc = "open"
    /\ authFile' = SavedTo(authFile, contexts[h].session)
    /\ UNCHANGED <<contexts, persisted, notSessionVars>>

\* the release of getContext starts, outside withPermits(1), which ended when
\* the context was created: onBeforeClose has called context.storageState({
\* path }) and the write of the file is under way
BeginSave(h) ==
    /\ contexts[h].pc = "open"
    /\ contexts' = [contexts EXCEPT ![h].pc = "saving"]
    /\ UNCHANGED <<authFile, persisted, notSessionVars>>

\* the release of getContext ends: the save of onBeforeClose is over (a
\* failed save is ignored) and the context is closed
ReleaseContext(h, saved) ==
    /\ contexts[h].pc = "saving"
    /\ authFile' = IF saved THEN SavedTo(authFile, contexts[h].session) ELSE authFile
    /\ persisted' = IF saved THEN persisted \cup {contexts[h].session} ELSE persisted
    /\ contexts' = [contexts EXCEPT ![h].pc = "closed"]
    /\ UNCHANGED notSessionVars

SessionNext ==
    \/ \E h \in Handles : NewContext(h)
    \/ \E h \in Handles : Authenticate(h)
    \/ \E h \in Handles : SaveInBody(h)
    \/ \E h \in Handles : BeginSave(h)
    \/ \E h \in Handles, saved \in BOOLEAN : ReleaseContext(h, saved)

SessionInit ==
    /\ authFile \in Sessions \cup {"missing"}
    /\ contexts = [h \in Handles |-> NoContext]
    /\ persisted = {}

SessionOff ==
    /\ authFile = "missing"
    /\ contexts = [h \in {} |-> NoContext]
    /\ persisted = {}

----------------------------------------------------------------------------
(* A second runner process of the same stage, run against the same store:   *)
(* the same fetchNextRecord and processOneRecord, kept to what they read    *)
(* from and write to the store                                              *)

NoPeer == [pc |-> "off", id |-> 0, services |-> 0]

IdlePeer == [pc |-> "fetch", id |-> 0, services |-> 0]

\* the positions at which processOneRecord holds the record it fetched
InFlight == {"claimed", "delete", "reset", "update"}

HeldByLoop(i) == pc \in InFlight /\ record.id = i

HeldByPeer(i) == peer.pc = "claimed" /\ peer.id = i

\* findFirst({ where: ... }): a read, the row is not marked
PeerFetch(i) ==
    /\ peer.pc = "fetch"
    /\ Eligible(i)
    /\ peer' = [pc |-> "claimed", id |-> i, services |-> company[i].services]
    /\ UNCHANGED <<loopVars, poolVars, engineVars, runnerVars, flight, sessionVars, prisma>>

\* what an iteration can leave in the store
PeerEffects == {"none", "true", "false", "removed"}

\* the rest of the peer's iteration: nothing written (timeout, failed write),
\* the terminal status written, or the disqualified company removed and its
\* place reset
PeerFinish(e) ==
    /\ peer.pc = "claimed"
    /\ CASE e = "none" -> UNCHANGED storeVars
         [] e = "removed" ->
               /\ IsDisqualified(peer)
               /\ company' = [company EXCEPT ![peer.id] = NoCompany]
               /\ placeStatus' = [placeStatus EXCEPT ![peer.id] = ResetStatus]
         [] OTHER ->
               /\ ~IsDisqualified(peer)
               /\ WriteStatus(peer.id, e)
    /\ peer' = IdlePeer
    /\ UNCHANGED <<stage, pc, cont, retries, queries, record, outcome, isCompleted,
                   metricVars, report, histVars, poolVars, engineVars, runnerVars,
                   flight, sessionVars, prisma>>

PeerNext ==
    \/ \E i \in Ids : PeerFetch(i)
    \/ \E e \in PeerEffects : PeerFinish(e)

\* one runner process, or two of the same stage, on a backlog that holds the
\* first record at most
PeerInit ==
    /\ peer \in {NoPeer, IdlePeer}
    /\ stage = "web" => \A i \in Ids \ {1} : placeStatus[i] = "absent"

PeerOff == peer = NoPeer

----------------------------------------------------------------------------
(* The database layer: PrismaClientLive connects the client when the layer  *)
(* is built, the runner's loop runs with the layer provided, and the        *)
(* finalizer disconnects the client when the layer's scope closes           *)

ConnectRecurs == 3

CanRetryConnectTotalTries(n) == n + 1 < ConnectRecurs

\* Schedule.exponential("1 second") intersected with Schedule.recurs(3): a
\* failed $connect is retried while fewer than 3 retries have been consumed
CanRetryConnect(n) == n < ConnectRecurs

NoPrisma == [pc |-> "off", attempts |-> 0, errorLogged |-> FALSE,
             disconnects |-> 0, disconnectErrors |-> 0, disconnectLogged |-> 0]

\* Config.string("DATABASE_URL") fails: the layer fails before any $connect
ConfigFails ==
    /\ prisma.pc = "building"
    /\ prisma.attempts = 0
    /\ prisma' = [prisma EXCEPT !.pc = "failed"]
    /\ UNCHANGED <<loopVars, poolVars, engineVars, runnerVars, flight, sessionVars, peer>>

\* prisma.$connect() under Effect.retry; when the schedule is exhausted the
\* catchAll logs the error and fails the layer with it
Connect(ok) ==
    /\ prisma.pc = "building"
    /\ IF ok
       THEN prisma' = [prisma EXCEPT !.attempts = @ + 1, !.pc = "connected"]
       ELSE IF CanRetryConnect(prisma.attempts)
            THEN prisma' = [prisma EXCEPT !.attempts = @ + 1]
            ELSE prisma' = [prisma EXCEPT !.attempts = @ + 1, !.pc = "failed",
                                          !.errorLogged = TRUE]
    /\ UNCHANGED <<loopVars, poolVars, engineVars, runnerVars, flight, sessionVars, peer>>

\* the finalizer, when the scope of the layer closes (the program is over or
\* interrupted): prisma.$disconnect(), whose failure is logged and dropped
Disconnect(ok) ==
    /\ prisma.pc = "connected"
    /\ prisma' = [prisma EXCEPT !.pc = "disconnected",
                                 !.disconnects = @ + 1,
                                 !.disconnectErrors = @ + (IF ok THEN 0 ELSE 1),
                                 !.disconnectLogged = @ + (IF ok THEN 0 ELSE 1)]
    /\ UNCHANGED <<loopVars, poolVars, engineVars, runnerVars, flight, sessionVars, peer>>

\* Effect.provide(DatabaseLive): the program runs once the layer is built
\* and until its scope closes
StoreProvided == prisma.pc = "connected"

ProvidedLoop ==
    /\ StoreProvided
    /\ LoopNext

DbNext ==
    \/ ConfigFails
    \/ \E ok \in BOOLEAN : Connect(ok)
    \/ \E ok \in BOOLEAN : Disconnect(ok)
    \/ ProvidedLoop

\* a runner whose layer is about to be built, with a backlog that holds the
\* first record at most
DbInit ==
    /\ stage = "web" => \A i \in Ids \ {1} : placeStatus[i] = "absent"
    /\ prisma = [NoPrisma EXCEPT !.pc = "building"]

DbOff == prisma = NoPrisma

----------------------------------------------------------------------------
(* Specifications *)

InitLoop == LoopInit /\ PoolOff /\ EngineOff /\ RunnerOff /\ DeadlineOff /\ SessionOff /\ PeerOff /\ DbOff

NextLoop ==
    \/ LoopNext
    \/ \E i \in Ids : UpstreamPlace(i)
    \/ \E i \in Ids : UpstreamCompany(i)

SpecLoop == InitLoop /\ [][NextLoop]_vars

\* the runtime runs the loop fiber on: every wait of the loop is finite (the
\* 3 s sleep, the capped number of backoff waits, the workflow's timeout)
FairSpecLoop == SpecLoop /\ WF_vars(LoopNext)

InitPool == PoolInit /\ LoopOff /\ EngineOff /\ RunnerOff /\ DeadlineOff /\ SessionOff /\ PeerOff /\ DbOff

SpecPool == InitPool /\ [][PoolNext]_vars

InitEngine == EngineInit /\ LoopOff /\ PoolOff /\ RunnerOff /\ DeadlineOff /\ SessionOff /\ PeerOff /\ DbOff

SpecEngine == InitEngine /\ [][EngineNext]_vars

\* the engine drives every execution it holds on: activities, compensations
\* and status changes are not left waiting for ever
FairSpecEngine == SpecEngine /\ WF_vars(EngineStep)

InitSaga == SagaInit /\ LoopOff /\ PoolOff /\ RunnerOff /\ DeadlineOff /\ SessionOff /\ PeerOff /\ DbOff

SpecSaga == InitSaga /\ [][EngineNext]_vars

FairSpecSaga == SpecSaga /\ WF_vars(EngineStep)

InitRunner == RunnerInit /\ PoolOff /\ EngineOff /\ DeadlineOff /\ SessionOff /\ PeerOff /\ DbOff

NextRunner ==
    \/ LoopNext
    \/ RunnerNext

SpecRunner == InitRunner /\ [][NextRunner]_vars

\* the runtime runs both fibers on: the loop's waits are finite and the
\* reporter's 30 s spacing elapses
FairSpecRunner == SpecRunner /\ WF_vars(LoopNext) /\ WF_vars(RunnerNext)

InitDeadline == LoopInit /\ DeadlineInit /\ EngineOff /\ RunnerOff /\ SessionOff /\ PeerOff /\ DbOff

NextDeadline ==
    \/ \E i \in Ids : FetchFound(i)
    \/ FetchEmpty
    \/ FetchError
    \/ \E ok \in BOOLEAN : UpdateStatus(ok)
    \/ Sleep
    \/ LoopStep
    \/ DeadlineNext

SpecDeadline == InitDeadline /\ [][NextDeadline]_vars

InitSession == SessionInit /\ LoopOff /\ PoolOff /\ EngineOff /\ RunnerOff /\ DeadlineOff /\ PeerOff /\ DbOff

SpecSession == InitSession /\ [][SessionNext]_vars

InitTwoLoops == LoopInit /\ PeerInit /\ PoolOff /\ EngineOff /\ RunnerOff /\ DeadlineOff /\ SessionOff /\ DbOff

NextTwoLoops ==
    \/ LoopNext
    \/ PeerNext

SpecTwoLoops == InitTwoLoops /\ [][NextTwoLoops]_vars

InitDb == LoopInit /\ DbInit /\ PoolOff /\ EngineOff /\ RunnerOff /\ DeadlineOff /\ SessionOff /\ PeerOff

SpecDb == InitDb /\ [][DbNext]_vars

----------------------------------------------------------------------------
(* Properties of the processing loop *)

C4_OnlyNoMoreRecordsEndsLoop ==
    /\ pc # "failed"
    /\ pc = "done" => (record = NoRecord /\ retries = RetryRecurs)

\* C5: backlog of 3 null records, the first two workflows succeed, the third
\* times out: at the next iteration boundary the counters are 3, 1, 1, two
\* records are true, the third is unchanged, and the loop finds the backlog
\* empty.
C5_ScenarioThreeRecords ==
    ( /\ stage = "web"
      /\ Cardinality({i \in Ids : placeStatus[i] # "absent"}) = 3
      /\ log = <<"ok", "ok", "timeout">>
      /\ Cardinality({i \in Ids : placeStatus[i] = "true"}) = 2
      /\ pc = "fetch" )
    => ( /\ recordsProcessed = 3
         /\ recordsFailed = 1
         /\ recordsTimedOut = 1
         /\ placeStatus[lastTimedOut] = "null"
         /\ BacklogEmpty )

\* C6: the claim that follows a timeout does not select the record that has
\* just timed out.
C6_NoImmediateRetry ==
    (pc = "claimed" /\ lastTimedOut # 0) => record.id # lastTimedOut

\* C7: a timeout increments recordsFailed and recordsTimedOut by exactly one
\* each for the item, up to the end of the iteration, and the loop goes on to
\* the next iteration.
C7_TimeoutCountedOnce ==
    /\ outcome = "timeout" =>
          /\ pc = "sleep"
          /\ recordsFailed = atClaim.failed + 1
          /\ recordsTimedOut = atClaim.timedOut + 1
    /\ (lastTimedOut # 0 /\ pc \in {"loop", "fetch"}) =>
          /\ recordsFailed = atClaim.failed + 1
          /\ recordsTimedOut = atClaim.timedOut + 1
          /\ pc = "loop" => cont

C7_Witness ==
    lastTimedOut # 0 /\ pc = "fetch" /\ recordsTimedOut = 1 /\ recordsFailed = 1

\* C8: an iteration whose workflow timed out leaves the terminal status of
\* the claimed record as it was when the record was claimed.
C8_TimeoutWritesNothing ==
    /\ outcome = "timeout" => TerminalStatus(record.id) = atClaim.status
    /\ (lastTimedOut # 0 /\ pc \in {"loop", "fetch"}) =>
          TerminalStatus(lastTimedOut) = atClaim.status

C8_Witness ==
    /\ lastTimedOut # 0
    /\ pc = "loop"
    /\ TerminalStatus(lastTimedOut) = IF stage = "web" THEN "null" ELSE "none"

\* C9 as stated: after a workflow that completed the record has status true,
\* after one that failed recordsFailed is one more and the record has status
\* false; in both cases the record is not eligible any more.
C9_StatusAlwaysWritten ==
    /\ (pc = "sleep" /\ outcome = "ok") =>
          /\ TerminalStatus(record.id) = "true"
          /\ ~Eligible(record.id)
    /\ (pc = "sleep" /\ outcome = "fail") =>
          /\ recordsFailed = atClaim.failed + 1
          /\ TerminalStatus(record.id) = "false"
          /\ ~Eligible(record.id)

\* C9 amended: the loop issues the write of true after a workflow that
\* completed and of false after one that failed (recordsFailed one more at
\* that point); if the write succeeds the record has that status and is not
\* eligible any more, and if the write fails the status is as it was at the
\* claim and recordsFailed is incremented once more.
C9_StatusWrittenIfStoreAccepts ==
    /\ pc = "update" =>
          /\ outcome \in {"ok", "fail"}
          /\ isCompleted = (IF outcome = "ok" THEN "true" ELSE "false")
          /\ recordsFailed = atClaim.failed + (IF outcome = "fail" THEN 1 ELSE 0)
    /\ (pc = "sleep" /\ outcome \in {"ok", "fail"}) =>
          \/ /\ TerminalStatus(record.id) = (IF outcome = "ok" THEN "true" ELSE "false")
             /\ ~Eligible(record.id)
             /\ recordsFailed = atClaim.failed + (IF outcome = "fail" THEN 1 ELSE 0)
          \/ /\ TerminalStatus(record.id) = atClaim.status
             /\ recordsFailed = atClaim.failed + (IF outcome = "fail" THEN 2 ELSE 1)

C9_Witness ==
    /\ pc = "sleep"
    /\ outcome = "fail"
    /\ TerminalStatus(record.id) = "false"
    /\ recordsFailed = atClaim.failed + 1

C11_OneSamplePerRecord ==
    /\ pc \in {"claimed", "delete", "reset", "update"} =>
          processingDuration = recordsProcessed - 1
    /\ pc \in {"sleep", "loop", "fetch", "done", "failed"} =>
          processingDuration = recordsProcessed

C11_Witness ==
    /\ pc = "loop"
    /\ processingDuration = 3
    /\ recordsProcessed = 3
    /\ \E k \in DOMAIN log : log[k] = "timeout"
    /\ \E k \in DOMAIN log : log[k] = "ok"
    /\ recordsFailed = 3

----------------------------------------------------------------------------
(* Properties of the browser pool *)

\* C2: the number of live handles never exceeds the concurrency limit.
C2_LiveHandlesBounded == liveHandles <= PermitLimit

\* C3: the teardown of the handle of every closed scope was invoked exactly
\* once.
C3_TeardownExactlyOnce ==
    \A c \in BagToSet(clients) : c.pc = "closed" => c.stops = 1

----------------------------------------------------------------------------
(* Properties of the workflow engine *)

SameKey(a, b) == a.wf = b.wf /\ a.key = b.key

Concurrent(i, j) ==
    /\ i # j
    /\ execs[i].status \notin TerminalStatuses
    /\ execs[j].status \notin TerminalStatuses

\* C12: two execute calls with the same idempotency key yield one execution:
\* no key has two concurrent executions, the second call joins the execution
\* of the first, and both observe the same outcome.
C12_OneExecutionPerKey ==
    /\ \A i, j \in 1..Len(execs) :
          SameKey(execs[i], execs[j]) => ~Concurrent(i, j)
    /\ \A c, d \in DOMAIN callers :
          (callers[c].pc # "idle" /\ callers[d].pc # "idle"
              /\ SameKey(callers[c], callers[d])) =>
             /\ callers[c].exec = callers[d].exec
             /\ (callers[c].pc = "done" /\ callers[d].pc = "done") =>
                    callers[c].outcome = callers[d].outcome

C12_Witness ==
    /\ Len(execs) = 1
    /\ \A c \in Callers :
          /\ callers[c].pc = "done"
          /\ callers[c].exec = 1
          /\ callers[c].outcome = "Succeeded"

TimestampedKey(w) == w \in {"PlaceWebsiteScraperWorkflow", "SyncCrmplaceDetailWorkflow"}

\* C13: two submissions of the same record id to PlacesLocatorWorkflow have
\* the same key whatever their instants and share one execution; two
\* submissions of the same record id to PlaceWebsiteScraperWorkflow or to
\* SyncCrmplaceDetailWorkflow at different instants have different keys and
\* are two separate executions.
C13_TimestampedKeysNotDeduplicated ==
    \A c, d \in DOMAIN callers :
       (c # d /\ callers[c].pc # "idle" /\ callers[d].pc # "idle"
           /\ callers[c].wf = callers[d].wf) =>
          /\ ~TimestampedKey(callers[c].wf) =>
                /\ callers[c].key = callers[d].key
                /\ callers[c].exec = callers[d].exec
          /\ (TimestampedKey(callers[c].wf) /\ callers[c].at # callers[d].at) =>
                /\ callers[c].key # callers[d].key
                /\ callers[c].exec # callers[d].exec

C13_Witness ==
    /\ Len(execs) = 2
    /\ \A c \in Callers : callers[c].wf = "SyncCrmplaceDetailWorkflow"
    /\ callers["c1"].at # callers["c2"].at
    /\ execs[1].key # execs[2].key
    /\ execs[1].status = "Running"
    /\ execs[2].status = "Running"

\* C14: every activity has a finite attempt budget N (Activity.retry's times
\* plus the first execution): its body is never executed more than N times,
\* and an activity whose operation kept failing has failed terminally after
\* exactly N executions.
C14_ExactlyBudgetExecutions ==
    \A i \in 1..Len(execs) :
       /\ execs[i].attempt <= AttemptBudget(execs[i].wf)
       /\ execs[i].result # "none" =>
             execs[i].attempt = AttemptBudget(execs[i].wf)

AllowedTransitions ==
    {<<"Pending", "Running">>, <<"Running", "Succeeded">>, <<"Running", "Failed">>,
     <<"Failed", "Compensating">>, <<"Compensating", "Compensated">>}

\* C15: the status of an execution changes only along Pending -> Running,
\* Running -> Succeeded, Running -> Failed, Failed -> Compensating and
\* Compensating -> Compensated; nothing leaves Succeeded or Compensated; and
\* an execution goes from Running to Failed only when an activity has
\* exhausted its retries or the workflow-level timeout has elapsed.
C15_StatusTransitions ==
    [][ \A i \in 1..Len(execs) :
           /\ execs'[i].status # execs[i].status =>
                 <<execs[i].status, execs'[i].status>> \in AllowedTransitions
           /\ execs[i].status \in TerminalStatuses =>
                 execs'[i].status = execs[i].status
           /\ (execs[i].status = "Running" /\ execs'[i].status = "Failed") =>
                 \/ /\ execs'[i].cause = "exhausted"
                    /\ execs'[i].attempt = AttemptBudget(execs[i].wf)
                 \/ execs'[i].cause = "timeout" ]_vars

CompensatedInReverse(e) ==
    /\ Len(e.compensated) <= Len(e.completed)
    /\ \A k \in 1..Len(e.compensated) :
          e.compensated[k] = e.completed[Len(e.completed) + 1 - k]

\* C16: the compensations of a failed execution run in the reverse of the
\* order in which its activities completed, and only for activities that
\* completed (after A1 and A2 succeeded and A3 failed: A2, then A1); they
\* start only once the execution is Compensating; a Compensated execution
\* has run all of them, whether or not some of them failed; and every Failed
\* execution ends in Compensated.
C16_CompensationReverseOrder ==
    /\ [](\A i \in 1..Len(execs) :
             /\ CompensatedInReverse(execs[i])
             /\ execs[i].status \notin {"Compensating", "Compensated"} =>
                   execs[i].compensated = << >>
             /\ execs[i].status = "Compensated" =>
                   Len(execs[i].compensated) = Len(execs[i].completed)
             /\ (execs[i].status = "Compensated" /\ execs[i].completed = <<1, 2>>) =>
                   execs[i].compensated = <<2, 1>>)
    /\ \A i \in ExecIds : (StatusOf(i) = "Failed") ~> (StatusOf(i) = "Compensated")

C16_Witness ==
    /\ Len(execs) = 1
    /\ execs[1].status = "Compensated"
    /\ execs[1].nAct = 3
    /\ execs[1].completed = <<1, 2>>
    /\ execs[1].cause = "exhausted"
    /\ execs[1].compensated = <<2, 1>>
    /\ execs[1].compFailed = {2}

\* C17: an acquisition whose creations keep failing ends after exactly 2
\* attempts with an error value the consumer can catch (it is not a defect
\* that kills the consumer), and every permit taken for an attempt is given
\* back.
C17_AcquireFailsAfterTwoAttempts ==
    /\ \A c \in BagToSet(clients) :
          /\ c.pc # "died"
          /\ c.pc = "failed" => c.tries = 2
    /\ permits + CopiesOf("creating") = PermitLimit

\* C18: when the onBeforeClose hook fails during release, by error or by
\* defect, the failure is logged and the teardown of the sub-resource still
\* runs.
C18_HookFailureNeverBlocksRelease ==
    \A c \in BagToSet(clients) :
       c.hook \in {"error", "defect"} =>
          /\ HookFailureLogged(c.hook)
          /\ c.pc = "closed"
          /\ c.stops = 1

\* C19: the long-lived browser of each pool is launched exactly once, is not
\* closed while the pool's scope is open, and has been closed exactly once
\* when the pool's scope has ended, normally or by failure, however many
\* handles were issued.
C19_BrowserClosedOnceAtScopeEnd ==
    /\ browser.launches = 1
    /\ browser.scope = "open" => browser.closes = 0
    /\ browser.scope # "open" => browser.closes = 1

\* C20 as stated: when fetchNextRecord gives up on an empty backlog it has
\* issued the store query 5 times in total.
C20_FiveQueriesInTotal ==
    (pc = "loop" /\ record = NoRecord) => queries = 5

\* C20 amended: when fetchNextRecord gives up on an empty backlog it has
\* issued the store query 6 times in total, the first try and 5 retries, and
\* it never issues more than 6.
C20_SixQueriesInTotal ==
    /\ queries <= 6
    /\ (pc = "loop" /\ record = NoRecord) => (queries = 6 /\ retries = 5)

C20_Witness ==
    /\ pc = "loop"
    /\ record = NoRecord
    /\ ~cont
    /\ BacklogEmpty
    /\ queries = 6

\* C29: recordsFailed never exceeds recordsProcessed: a claimed record
\* increments recordsFailed at most once, also when the workflow fails and the
\* status write after it fails too.
C29_FailedAtMostOncePerRecord ==
    /\ recordsFailed <= recordsProcessed
    /\ recordsFailed <= atClaim.failed + 1

\* the number of iterations so far whose workflow call ended as o
RECURSIVE CountOutcome(_, _)
CountOutcome(l, o) ==
    IF l = << >> THEN 0
    ELSE (IF Head(l) = o THEN 1 ELSE 0) + CountOutcome(Tail(l), o)

\* C30: in the sync loop every claimed record is counted in exactly one of
\* succeeded, failed and skipped: no record increments both recordsSkipped
\* and recordsFailed, the reported success count is never negative and,
\* between iterations, equals the number of records whose workflow succeeded.
C30_ExactlyOneCounterPerRecord ==
    stage = "sync" =>
       /\ ~(recordsSkipped > atClaim.skipped /\ recordsFailed > atClaim.failed)
       /\ logMetrics.success >= 0
       /\ pc \in {"loop", "fetch", "done"} => logMetrics.success = CountOutcome(log, "ok")

ReadmeRetries == 3

ExtractionWorkflows == {"PlaceWebsiteScraperWorkflow", "PlacesLocatorWorkflow"}

\* C26: a failed extraction is retried up to 3 times before the item is
\* reported as failed: an execution of the ScrapeWebsite or ExtractGooglePlaces
\* workflow whose activity failed for good has run it 1 + 3 times.
C26_ExtractionRetriedThreeTimes ==
    \A i \in 1..Len(execs) :
       (execs[i].wf \in ExtractionWorkflows /\ execs[i].result = "exhausted")
           => execs[i].attempt = 1 + ReadmeRetries

----------------------------------------------------------------------------
(* Properties of the runner program *)

\* C21: a reporting cycle that errors is logged and the reporter keeps
\* reporting: while the program runs it is still in a cycle or waiting for
\* the next one, and the failure never kills the reporter (and with it the
\* process and the loop).
C21_ReporterSurvivesFailedCycle ==
    /\ reporter.errors > 0 => Absorbed("metricsReporter", TRUE) \in absorbed
    /\ (reporter.errors > 0 /\ program = "running") => reporter.pc \in {"cycle", "wait"}
    /\ reporter.pc # "died"

\* C24: no silent failures: every error the program catches and absorbs is
\* logged before it is absorbed.
C24_NoSilentFailure == \A a \in absorbed : a.logged

----------------------------------------------------------------------------
(* Properties of the workflow call under its deadline *)

----------------------------------------------------------------------------
(* Properties of the session snapshot *)

\* C23: session round trip: when the onBeforeClose hook of a handle has
\* persisted session state S on release, the next handle acquired, seeded
\* from the snapshot, starts with session state S.
C23_SessionRoundTrip ==
    [][\A h \in Handles :
          (contexts[h].pc = "none" /\ contexts'[h].pc # "none")
              => \A S \in persisted : contexts'[h].session = S]_vars

----------------------------------------------------------------------------
(* Properties of two runner processes on one store *)

\* C25: the claim step takes no lock: it writes nothing to the store and the
\* record it returns is still eligible for the claim query of any other
\* instance, so two instances of the same stage can hold the same record at
\* once; a single instance never holds a record in two iterations at once.
C25_ClaimTakesNoLock ==
    [][/\ (pc = "fetch" /\ pc' = "claimed")
            => (UNCHANGED storeVars /\ Eligible(record.id)')
       /\ (peer.pc = "fetch" /\ peer'.pc = "claimed")
            => (UNCHANGED storeVars /\ Eligible(peer.id)')
       /\ peer = NoPeer => \A i \in Ids : ~(HeldByLoop(i) /\ HeldByPeer(i))]_vars

\* both instances hold the same record and neither has written to it yet
C25_Witness ==
    \E i \in Ids : HeldByLoop(i) /\ HeldByPeer(i) /\ pc = "claimed" /\ Eligible(i)

----------------------------------------------------------------------------
(* The ScrapeWebsite activity's write to the store, and the two stages in    *)
(* a row: the website runner drains its backlog, then the sync runner works  *)
(* on the Company rows it left. One activity attempt per call; the engine's  *)
(* retries are in SpecEngine.                                                *)

MaxServices == 1

Phones == {"local", "plus1"}

\* what agent.extract(...) returned: the number of tags in servicesOffered,
\* whether telephoneNumber contains "+1", whether emailAddress is set
Extractions == [services : 0..MaxServices, phone : Phones, email : BOOLEAN]

IsRejectedPlusOneOnly(x) == x.phone = "plus1"

\* if (servicesOffered.length === 0 || telephoneNumber.includes("+1")) return
IsRejected(x) == x.services = 0 \/ x.phone = "plus1"

\* db.company.create({ data: { ..., emailAddress, servicesOffered } })
CreatedFrom(x) == NewCompany(x.services, x.email)

CallIs(s) == flight.no = workflowsStarted + 1 /\ flight.state = s

notLoopFlightVars == <<poolVars, engineVars, runnerVars, sessionVars, peer, prisma>>

\* goto, extract, waitForTimeout or agent.stop failed: ScrapeWebsiteError
ScrapeFails ==
    /\ stage = "web"
    /\ CallIs("running")
    /\ flight' = [flight EXCEPT !.state = "failed"]
    /\ UNCHANGED notFlightVars

\* the extraction is rejected: the activity returns without a write
ScrapeRejects(x) ==
    /\ stage = "web"
    /\ CallIs("running")
    /\ IsRejected(x)
    /\ flight' = [no |-> flight.no, state |-> "rejected", data |-> x]
    /\ UNCHANGED notFlightVars

\* the extraction is kept: db.company.create, whose failure fails the activity
CreateCompany(x, ok) ==
    /\ stage = "web"
    /\ CallIs("running")
    /\ ~IsRejected(x)
    /\ IF ok
       THEN /\ company' = [company EXCEPT ![record.id] = CreatedFrom(x)]
            /\ flight' = [no |-> flight.no, state |-> "created", data |-> x]
       ELSE /\ flight' = [flight EXCEPT !.state = "failed"]
            /\ UNCHANGED company
    /\ UNCHANGED <<stage, placeStatus, pc, cont, retries, record, outcome, isCompleted,
                   metricVars, report, histVars, queries, notLoopFlightVars>>

\* the workflow's body is the activity and a log: the call succeeds when the
\* activity returned (with or without a write), fails when it failed, and
\* the runner's deadline can pass at any point of it
ScrapeResult(o) ==
    CASE o = "ok" -> CallIs("rejected") \/ CallIs("created")
      [] o = "fail" -> CallIs("failed")
      [] OTHER -> flight.no = workflowsStarted + 1

WebWorkflow(o) ==
    /\ stage = "web"
    /\ ScrapeResult(o)
    /\ ExecuteWorkflow(o)

\* SyncCrmplaceDetailWorkflow.execute(...) of the sync runner
SyncWorkflow(o) ==
    /\ stage = "sync"
    /\ ExecuteWorkflow(o)

\* the sync runner is started on the store the website runner left
StartSync ==
    /\ stage = "web"
    /\ pc = "done"
    /\ stage' = "sync"
    /\ pc' = "fetch"
    /\ cont' = TRUE
    /\ retries' = 0
    /\ queries' = 0
    /\ record' = NoRecord
    /\ outcome' = "none"
    /\ isCompleted' = "null"
    /\ recordsProcessed' = 0
    /\ recordsFailed' = 0
    /\ recordsSkipped' = 0
    /\ recordsTimedOut' = 0
    /\ processingDuration' = 0
    /\ workflowsStarted' = 0
    /\ report' = NoReport
    /\ atClaim' = NoClaim
    /\ lastTimedOut' = 0
    /\ log' = << >>
    /\ flight' = NoFlight
    /\ UNCHANGED <<storeVars, notLoopFlightVars>>

ScrapeNext ==
    \/ StartWorkflow
    \/ ScrapeFails
    \/ \E x \in Extractions : ScrapeRejects(x)
    \/ \E x \in Extractions, ok \in BOOLEAN : CreateCompany(x, ok)
    \/ \E o \in Outcomes : WebWorkflow(o)
    \/ \E o \in Outcomes : SyncWorkflow(o)
    \/ StartSync

\* the website runner with a backlog that holds the first record at most
ScrapeInit ==
    /\ stage = "web"
    /\ \A i \in Ids \ {1} : placeStatus[i] = "absent"
    /\ flight = NoFlight

InitScrape == LoopInit /\ ScrapeInit /\ PoolOff /\ EngineOff /\ RunnerOff /\ SessionOff /\ PeerOff /\ DbOff

NextScrape ==
    \/ \E i \in Ids : FetchFound(i)
    \/ FetchEmpty
    \/ FetchError
    \/ \E ok \in BOOLEAN : UpdateStatus(ok)
    \/ Sleep
    \/ LoopStep
    \/ ScrapeNext

SpecScrape == InitScrape /\ [][NextScrape]_vars

----------------------------------------------------------------------------
(* Properties of the scrape activity and of the two stages *)

\* C31: in the website runner a PlaceEntry whose status is true has a Company
\* derived from it: true is never written after a scrape that was rejected
\* and created no Company
C31_TrueStatusHasCompany ==
    stage = "web" => \A i \in Ids : placeStatus[i] = "true" => company[i].exists

\* C36: a Company the activity creates has at least one service and a
\* telephone number without "+1", and a record the sync runner claims from
\* the Company rows the website runner left is never one its zero-services
\* branch takes
C36_CreatedCompanyQualifies ==
    /\ CallIs("created") =>
          /\ flight.data.services >= 1
          /\ flight.data.phone # "plus1"
          /\ company[record.id] = CreatedFrom(flight.data)
    /\ \A i \in Ids : company[i].exists => company[i].services >= 1
    /\ (stage = "sync" /\ pc = "claimed") => ~IsDisqualified(record)

C36_Witness ==
    /\ stage = "sync"
    /\ pc = "claimed"
    /\ company[record.id].exists
    /\ record.services >= 1

----------------------------------------------------------------------------
(* Further properties of the processing loop *)

\* the record has no terminal status yet
Unsettled(i) ==
    IF stage = "web" THEN placeStatus[i] = "null" ELSE company[i].crmSyncEvent = "none"

\* C32: the loop claims eligible records only, and a single loop never
\* starts a workflow for, nor writes a terminal status to, a record that
\* already has a terminal status
C32_OnlyUnsettledRecordsWorked ==
    [][/\ recordsProcessed' # recordsProcessed => Eligible(record'.id)
       /\ workflowsStarted' # workflowsStarted => Unsettled(record.id)
       /\ \A i \in Ids :
             (TerminalStatus(i)' # TerminalStatus(i) /\ TerminalStatus(i)' \in {"true", "false"})
                => (i = record.id /\ Unsettled(i))]_vars

C32_Witness ==
    /\ pc = "sleep"
    /\ outcome = "ok"
    /\ TerminalStatus(record.id) = "true"
    /\ atClaim.status \in {"null", "none"}

\* C33: recordsProcessed counts the claims: it is incremented by one at
\* each claim, skipped records included, and by nothing else, so it always
\* equals the number of iterations that went past the claim, and no workflow
\* or skip precedes its count
C33_ProcessedCountsClaims ==
    /\ [](recordsProcessed = Len(log) + (IF pc = "claimed" THEN 1 ELSE 0))
    /\ [](workflowsStarted + recordsSkipped <= recordsProcessed)
    /\ [][recordsProcessed' # recordsProcessed
             => /\ pc = "fetch"
                /\ pc' = "claimed"
                /\ recordsProcessed' = recordsProcessed + 1]_vars
    /\ [][(pc = "fetch" /\ pc' = "claimed")
             => recordsProcessed' = recordsProcessed + 1]_vars

\* the same record claimed a second time (after a timeout left it
\* unsettled) and counted a second time
C33_Witness ==
    /\ recordsProcessed = 2
    /\ pc = "claimed"
    /\ lastTimedOut = record.id

\* C35: the zero-services branch of the sync runner leaves the Company
\* deleted and the PlaceEntry reset, or neither
C35_SkipIsAllOrNothing ==
    [][(pc \in {"delete", "reset"} /\ pc' = "sleep")
          => \/ /\ ~company'[record.id].exists
                /\ placeStatus'[record.id] = ResetStatus
             \/ /\ company'[record.id].exists
                /\ placeStatus'[record.id] = atClaim.place]_vars

\* C37: recordsTimedOut never exceeds recordsFailed, and every increment of
\* recordsTimedOut comes with an increment of recordsFailed
C37_TimedOutWithinFailed ==
    /\ [](recordsTimedOut <= recordsFailed)
    /\ [][recordsTimedOut' # recordsTimedOut
             => /\ recordsTimedOut' = recordsTimedOut + 1
                /\ recordsFailed' = recordsFailed + 1]_vars

C37_Witness ==
    /\ recordsTimedOut = 2
    /\ recordsFailed = 2

----------------------------------------------------------------------------
(* Further properties of the call under its deadline *)

----------------------------------------------------------------------------
(* Further properties of the session snapshot *)

\* the handles whose write of ./playwright/auth.json is under way
Writers == {h \in Handles : contexts[h].pc = "saving"}

\* C38: session-state persistence is single-writer: at most one handle at a
\* time is writing ./playwright/auth.json
C38_SingleWriter == Cardinality(Writers) <= 1

----------------------------------------------------------------------------
(* Properties of the database layer *)

\* C39: the connection is retried 3 times, so $connect is attempted at most
\* 4 times; when every attempt failed the error is logged and the layer
\* fails, and the loop takes no step without a connected client; when the
\* scope closes the client is disconnected once, and a failed disconnect is
\* logged and dropped
C39_ConnectRetriedThreeTimes ==
    /\ [](prisma.attempts <= ConnectRecurs + 1)
    /\ []((prisma.pc = "failed" /\ prisma.attempts > 0)
             => (prisma.attempts = ConnectRecurs + 1 /\ prisma.errorLogged))
    /\ [](prisma.pc \in {"building", "failed"}
             => (pc = "fetch" /\ queries = 0 /\ recordsProcessed = 0))
    /\ [][loopVars' # loopVars => (prisma.pc = "connected" /\ prisma' = prisma)]_vars
    /\ [](prisma.disconnects <= 1)
    /\ [](prisma.pc = "disconnected" <=> prisma.disconnects = 1)
    /\ [](prisma.disconnectLogged = prisma.disconnectErrors)

\* the client connected at the fourth attempt, the loop worked a record, and
\* the disconnect at the end failed
C39_Witness ==
    /\ prisma.pc = "disconnected"
    /\ prisma.attempts = ConnectRecurs + 1
    /\ prisma.disconnectLogged = 1
    /\ recordsProcessed >= 1

====
